---- MODULE Spec2Model ----
(***************************************************************************)
(* Header/Meta Checker userscript (header-meta-checker.user.js).           *)
(*                                                                         *)
(* JavaScript strings are modelled as sequences of one-character strings,  *)
(* so that trimming, lower-casing, splitting and searching are computed    *)
(* the way the script computes them.                                       *)
(***************************************************************************)
EXTENDS Naturals, Sequences, FiniteSets, TLC

(***************************************************************************)
(* Bounds of the model.                                                    *)
(***************************************************************************)
\* longest window.location.pathname explored
MaxPathLen == 4
\* most lines in a robots.txt response
MaxLines == 2
\* most calls of displaySplitBanner on one document
MaxDisplayCalls == 3

(***************************************************************************)
(* String primitives of the JavaScript runtime.                            *)
(***************************************************************************)
UpperCaseLetters == <<"A", "B", "C", "D", "E", "F", "G", "H", "I", "J", "K", "L", "M", "N", "O", "P", "Q", "R", "S", "T", "U", "V", "W", "X", "Y", "Z">>
LowerCaseLetters == <<"a", "b", "c", "d", "e", "f", "g", "h", "i", "j", "k", "l", "m", "n", "o", "p", "q", "r", "s", "t", "u", "v", "w", "x", "y", "z">>

\* the lower-case letter of each upper-case letter
lowerOf ==
    [c \in {UpperCaseLetters[i] : i \in 1..26} |->
        LowerCaseLetters[CHOOSE i \in 1..26 : UpperCaseLetters[i] = c]]

\* String.prototype.toLowerCase on one character
LowerChar(c) == IF c \in DOMAIN lowerOf THEN lowerOf[c] ELSE c

toLowerCase(s) == [i \in 1..Len(s) |-> LowerChar(s[i])]

\* characters String.prototype.trim removes and the regular expression \s matches
WhiteSpace == {" ", "\t", "\n", "\r"}

\* characters the regular expression . does not match
LineTerminators == {"\n", "\r"}

startsWith(s, t) == Len(s) >= Len(t) /\ SubSeq(s, 1, Len(t)) = t

endsWith(s, t) == Len(s) >= Len(t) /\ SubSeq(s, Len(s) - Len(t) + 1, Len(s)) = t

includes(s, t) == \E i \in 0..Len(s) : i + Len(t) <= Len(s) /\ SubSeq(s, i + 1, i + Len(t)) = t

\* s.substring(n): the characters from index n (counted from 0) to the end
substring(s, n) == SubSeq(s, n + 1, Len(s))

\* s.slice(0, -1)
sliceDropLast(s) == SubSeq(s, 1, Len(s) - 1)

RECURSIVE trimStart(_)
trimStart(s) == IF s # <<>> /\ Head(s) \in WhiteSpace THEN trimStart(Tail(s)) ELSE s

RECURSIVE trimEnd(_)
trimEnd(s) == IF s # <<>> /\ s[Len(s)] \in WhiteSpace THEN trimEnd(sliceDropLast(s)) ELSE s

trim(s) == trimEnd(trimStart(s))

\* s.split(sep) for a one-character separator: always at least one piece
RECURSIVE split(_, _)
split(s, sep) ==
    IF \E i \in 1..Len(s) : s[i] = sep
    THEN LET k == CHOOSE i \in 1..Len(s) : s[i] = sep /\ \A j \in 1..(i - 1) : s[j] # sep
         IN  <<SubSeq(s, 1, k - 1)>> \o split(SubSeq(s, k + 1, Len(s)), sep)
    ELSE <<s>>

(***************************************************************************)
(* Configuration (lines 19-26) and the pure helpers of the script.         *)
(***************************************************************************)
\* the funnel list as an installation fills it in; '' is the shipped placeholder
funnelPaths == << <<>>, <<"/", "a">>, <<"/", "a", "B">> >>

funnelPathsIncludes(pathname) == \E i \in 1..Len(funnelPaths) : funnelPaths[i] = pathname

\* mutation of getNormalizedPathname: the length test is left out
getNormalizedPathname_stripsRoot(pathname) ==
    IF endsWith(pathname, <<"/">>) THEN sliceDropLast(pathname) ELSE pathname

\* getNormalizedPathname, applied to a value of window.location.pathname
getNormalizedPathname(pathname) ==
    IF Len(pathname) > 1 /\ endsWith(pathname, <<"/">>)
    THEN sliceDropLast(pathname)
    ELSE pathname

\* const isFunnel in runChecks
isFunnelPage(loc) ==
    loc.hostname = "get-honey.ai" /\ funnelPathsIncludes(getNormalizedPathname(loc.pathname))

\* mutation of shouldUseStandardLogic: the funnel list is not consulted
shouldUseStandardLogic_hostOnly(loc) == loc.hostname = "get-honey.ai"

\* TRUE for standard logic, FALSE for inverted logic
shouldUseStandardLogic(loc) ==
    IF loc.hostname = "get-honey.ai"
    THEN ~funnelPathsIncludes(getNormalizedPathname(loc.pathname))
    ELSE FALSE

Verdict(text, value, status) == [message |-> [text |-> text, value |-> value], status |-> status]

\* a result that has not been assigned yet
Unset == Verdict("", <<>>, "unset")

(***************************************************************************)
(* checkMetaTag (lines 141-158).  metaTag is the result of querySelector:  *)
(* exists = FALSE is null; hasContent = FALSE is getAttribute giving null. *)
(***************************************************************************)
\* content.toLowerCase() on null raises a TypeError
checkMetaTagThrows(metaTag) == metaTag.exists /\ ~metaTag.hasContent

metaIsRestrictive(content) ==
    includes(toLowerCase(content), <<"n", "o", "i", "n", "d", "e", "x">>) \/ includes(toLowerCase(content), <<"n", "o", "f", "o", "l", "l", "o", "w">>)

\* mutation of metaPresentStatus: the polarity is ignored
metaPresentStatus_ignoresPolarity(isStandard, isRestrictive) ==
    IF isRestrictive THEN "bad" ELSE "ok"

metaPresentStatus(isStandard, isRestrictive) ==
    IF isStandard
    THEN (IF isRestrictive THEN "bad" ELSE "ok")
    ELSE (IF isRestrictive THEN "ok" ELSE "bad")

\* mutation of metaAbsentStatus: a missing tag is judged like a missing header
metaAbsentStatus_likeHeader(isStandard) == IF isStandard THEN "ok" ELSE "bad"

metaAbsentStatus(isStandard) == "not-found"

checkMetaTag(metaTag, loc) ==
    IF metaTag.exists
    THEN Verdict("Meta: content=", metaTag.content,
                 metaPresentStatus(shouldUseStandardLogic(loc), metaIsRestrictive(metaTag.content)))
    ELSE Verdict("Meta: tag not found", <<>>, metaAbsentStatus(shouldUseStandardLogic(loc)))

(***************************************************************************)
(* checkRobotsTxtForPath (lines 95-135).                                   *)
(***************************************************************************)
\* step 1 of onload (split, map, filter, map): the rule paths of the lines
\* that start with disallow:
disallowedPaths(robotsTxtContent) ==
    LET lines == split(robotsTxtContent, "\n")
        lowered == [i \in 1..Len(lines) |-> toLowerCase(trim(lines[i]))]
        kept == SelectSeq(lowered, LAMBDA line : startsWith(line, <<"d", "i", "s", "a", "l", "l", "o", "w", ":">>))
    IN  [i \in 1..Len(kept) |-> trim(substring(kept[i], Len(<<"d", "i", "s", "a", "l", "l", "o", "w", ":">>)))]

\* mutation of pathIsUnder: a plain string prefix, without the / separator
pathIsUnder_plainPrefix(currentPath, normalizedDisallowedPath) ==
    startsWith(currentPath, normalizedDisallowedPath)

\* the sub-path test of line 119
pathIsUnder(currentPath, normalizedDisallowedPath) ==
    startsWith(currentPath, normalizedDisallowedPath \o <<"/">>)

\* lines 112-115: the rule path without its trailing slash
normalizeDisallowedPath(disallowedPath) ==
    IF Len(disallowedPath) > 1 /\ endsWith(disallowedPath, <<"/">>)
    THEN sliceDropLast(disallowedPath)
    ELSE disallowedPath

\* the body of the some() callback, lines 110-120
ruleCovers(disallowedPath, currentPath) ==
    LET normalizedDisallowedPath == normalizeDisallowedPath(disallowedPath)
    IN  IF normalizedDisallowedPath = <<>>
        THEN FALSE
        ELSE \/ currentPath = normalizedDisallowedPath
             \/ pathIsUnder(currentPath, normalizedDisallowedPath)

\* disallowedPaths.some(...)
isDisallowed(robotsTxtContent, currentPath) ==
    LET paths == disallowedPaths(robotsTxtContent)
    IN  \E i \in 1..Len(paths) : ruleCovers(paths[i], currentPath)

robotsOnload(responseText, currentPath) ==
    IF isDisallowed(responseText, currentPath)
    THEN Verdict("robots.txt: Disallowed", <<>>, "ok")
    ELSE Verdict("robots.txt: NOT Disallowed", <<>>, "bad")

\* mutation of robotsOnerror: a failed fetch is reported as a disallowed path
robotsOnerror_asDisallowed == Verdict("robots.txt: Disallowed", <<>>, "ok")

robotsOnerror == Verdict("robots.txt: Fetch Error", <<>>, "not-found")

(***************************************************************************)
(* checkHeaderTag (lines 164-191).                                         *)
(***************************************************************************)
\* positions where the text x-robots-tag: occurs, whatever its case (flag i)
headerMatchPositions(responseHeaders) ==
    LET lowered == toLowerCase(responseHeaders)
        n == Len(<<"x", "-", "r", "o", "b", "o", "t", "s", "-", "t", "a", "g", ":">>)
    IN  {i \in 1..Len(lowered) :
            i + n - 1 <= Len(lowered) /\ SubSeq(lowered, i, i + n - 1) = <<"x", "-", "r", "o", "b", "o", "t", "s", "-", "t", "a", "g", ":">>}

\* the longest prefix without a line terminator: what (.*) captures
RECURSIVE restOfLine(_)
restOfLine(s) ==
    IF s = <<>> \/ Head(s) \in LineTerminators THEN <<>> ELSE <<Head(s)>> \o restOfLine(Tail(s))

\* responseHeaders.match(/x-robots-tag:\s*(.*)/i): found = FALSE is null,
\* group1 is the capture of the leftmost match
headerMatch(responseHeaders) ==
    LET at == headerMatchPositions(responseHeaders)
    IN  IF at = {}
        THEN [found |-> FALSE, group1 |-> <<>>]
        ELSE LET k == CHOOSE i \in at : \A j \in at : i <= j
                 after == SubSeq(responseHeaders, k + Len(<<"x", "-", "r", "o", "b", "o", "t", "s", "-", "t", "a", "g", ":">>), Len(responseHeaders))
             IN  [found |-> TRUE, group1 |-> restOfLine(trimStart(after))]

\* mutation of headerIsRestrictive: the value is not lower-cased
headerIsRestrictive_caseSensitive(headerValue) ==
    includes(headerValue, <<"n", "o", "i", "n", "d", "e", "x">>) \/ includes(headerValue, <<"n", "o", "f", "o", "l", "l", "o", "w">>)

headerIsRestrictive(headerValue) ==
    includes(toLowerCase(headerValue), <<"n", "o", "i", "n", "d", "e", "x">>) \/ includes(toLowerCase(headerValue), <<"n", "o", "f", "o", "l", "l", "o", "w">>)

headerPresentStatus(isStandard, isRestrictive) ==
    IF isStandard
    THEN (IF isRestrictive THEN "bad" ELSE "ok")
    ELSE (IF isRestrictive THEN "ok" ELSE "bad")

\* mutation of headerAbsentStatus: the two outcomes are exchanged
headerAbsentStatus_swapped(isStandard) == IF isStandard THEN "bad" ELSE "ok"

headerAbsentStatus(isStandard) == IF isStandard THEN "ok" ELSE "bad"

headerOnload(responseHeaders, loc) ==
    LET match == headerMatch(responseHeaders)
        isStandard == shouldUseStandardLogic(loc)
    IN  IF match.found
        THEN LET headerValue == trim(match.group1)
             IN  Verdict("Header: x-robots-tag: ", headerValue,
                         headerPresentStatus(isStandard, headerIsRestrictive(headerValue)))
        ELSE Verdict("Header: not found", <<>>, headerAbsentStatus(isStandard))

\* mutation of headerOnerror: a failed request is judged like a missing header
headerOnerror_asAbsent == Verdict("Header: Request error", <<>>, "bad")

headerOnerror == Verdict("Header: Request error", <<>>, "not-found")

(***************************************************************************)
(* The environment: the pages, robots.txt files and HEAD responses the     *)
(* script is run against.                                                  *)
(***************************************************************************)
Strings(chars, n) == UNION {[1..k -> chars] : k \in 0..n}

Hostnames == {"get-honey.ai", "www.get-honey.ai", "example.com"}

PathChars == {"/", "a", "B"}

\* values of window.location.pathname: never empty, always starting with /
Pathnames == {p \in Strings(PathChars, MaxPathLen) : Len(p) >= 1 /\ p[1] = "/"}

Locations == [hostname : Hostnames, pathname : Pathnames]

MetaElement(content) == [exists |-> TRUE, hasContent |-> TRUE, content |-> content]

MetaTags ==
    { [exists |-> FALSE, hasContent |-> FALSE, content |-> <<>>],
      [exists |-> TRUE, hasContent |-> FALSE, content |-> <<>>],
      MetaElement(<<>>),
      MetaElement(<<"i", "n", "d", "e", "x", ",", " ", "f", "o", "l", "l", "o", "w">>),
      MetaElement(<<"n", "o", "i", "n", "d", "e", "x", ",", " ", "n", "o", "f", "o", "l", "l", "o", "w">>),
      MetaElement(<<"N", "O", "I", "N", "D", "E", "X">>),
      MetaElement(<<"N", "o", "F", "o", "l", "l", "o", "w">>),
      MetaElement(<<"n", "o", "n", "e">>) }

\* lines a robots.txt file is made of
RobotsLines ==
    { <<"D", "i", "s", "a", "l", "l", "o", "w", ":", " ", "/", "a">>,
      <<"d", "i", "s", "a", "l", "l", "o", "w", ":", "/", "a", "/">>,
      <<" ", "D", "I", "S", "A", "L", "L", "O", "W", ":", " ", "/", "a", "B", "\r">>,
      <<"D", "i", "s", "a", "l", "l", "o", "w", ":", " ", "/", "a", "/", "B">>,
      <<"D", "i", "s", "a", "l", "l", "o", "w", ":", " ", "/", "a", "/", "/">>,
      <<"D", "i", "s", "a", "l", "l", "o", "w", ":", " ", "/", "B">>,
      <<"D", "i", "s", "a", "l", "l", "o", "w", ":", " ", "/">>,
      <<"D", "i", "s", "a", "l", "l", "o", "w", ":">>,
      <<"D", "i", "s", "a", "l", "l", "o", "w", " ", "/", "a">>,
      <<"#", " ", "D", "i", "s", "a", "l", "l", "o", "w", ":", " ", "/", "a">>,
      <<"A", "l", "l", "o", "w", ":", " ", "/", "a", "B">>,
      <<>> }

RECURSIVE join(_, _)
join(lines, sep) ==
    IF lines = <<>> THEN <<>>
    ELSE IF Len(lines) = 1 THEN Head(lines)
    ELSE Head(lines) \o <<sep>> \o join(Tail(lines), sep)

TextsOf(lineSet) ==
    {join(lines, "\n") : lines \in UNION {[1..k -> lineSet] : k \in 1..MaxLines}}

\* the robots.txt files the matcher is applied to
RobotsTexts == TextsOf(RobotsLines)

\* the robots.txt files served during a run of the script
ServedRobotsTexts ==
    TextsOf({ <<"D", "i", "s", "a", "l", "l", "o", "w", ":", " ", "/", "a">>,
              <<"d", "i", "s", "a", "l", "l", "o", "w", ":", "/", "a", "/">>,
              <<" ", "D", "I", "S", "A", "L", "L", "O", "W", ":", " ", "/", "a", "B", "\r">>,
              <<"D", "i", "s", "a", "l", "l", "o", "w", ":", " ", "/">>,
              <<"D", "i", "s", "a", "l", "l", "o", "w", ":">>,
              <<"A", "l", "l", "o", "w", ":", " ", "/", "a", "B">> })

\* response header blocks of the HEAD request
ResponseHeaders ==
    { <<>>,
      <<"c", "o", "n", "t", "e", "n", "t", "-", "t", "y", "p", "e", ":", " ", "t", "e", "x", "t", "/", "h", "t", "m", "l", "\r", "\n">>,
      <<"x", "-", "r", "o", "b", "o", "t", "s", "-", "t", "a", "g", ":", " ", "n", "o", "i", "n", "d", "e", "x", "\r", "\n">>,
      <<"e", "t", "a", "g", ":", " ", "1", "\r", "\n", "X", "-", "R", "o", "b", "o", "t", "s", "-", "T", "a", "g", ":", " ", "i", "n", "d", "e", "x", ",", " ", "f", "o", "l", "l", "o", "w", "\r", "\n">>,
      <<"X", "-", "R", "o", "b", "o", "t", "s", "-", "T", "a", "g", ":", "N", "O", "F", "O", "L", "L", "O", "W">>,
      <<"x", "-", "r", "o", "b", "o", "t", "s", "-", "t", "a", "g", ":", " ", "n", "o", "n", "e", "\r", "\n", "e", "t", "a", "g", ":", " ", "1", "\r", "\n">>,
      <<"x", "-", "r", "o", "b", "o", "t", "s", "-", "t", "a", "g", ":", "\r", "\n", "l", "i", "n", "k", ":", " ", "n", "o", "f", "o", "l", "l", "o", "w", "\r", "\n">>,
      <<"m", "y", "-", "x", "-", "r", "o", "b", "o", "t", "s", "-", "t", "a", "g", ":", " ", "n", "o", "i", "n", "d", "e", "x", "\r", "\n">> }

(***************************************************************************)
(* State.                                                                  *)
(***************************************************************************)
VARIABLES
    location,          \* window.location: hostname and pathname
    metaTag,           \* document.querySelector('meta[name="robots"]')
    pc,                \* where runChecks stands
    requests,          \* the GM_xmlhttpRequest calls made so far, by method
    robotsResponse,    \* what the robots.txt request completed with
    headResponse,      \* what the HEAD request completed with
    robotsResult,      \* runChecks: const robotsResult
    leftPanelResult,   \* runChecks: let leftPanelResult
    rightPanelResult,  \* runChecks: const rightPanelResult
    banner,            \* the arguments displaySplitBanner was called with
    normalized,        \* a path followed by its successive normalizations
    locals,            \* runChecks: const hostname, pathname, isFunnel
    body,              \* the banner elements attached to document.body, in order
    displayCalls       \* how many times displaySplitBanner has been called

vars == <<location, metaTag, pc, requests, robotsResponse, headResponse,
          robotsResult, leftPanelResult, rightPanelResult, banner, normalized,
          locals, body, displayCalls>>

\* what displaySplitBanner and the close button act on
dom == <<banner, body, displayCalls>>

NoResponse == [kind |-> "none", text |-> <<>>]

NoBanner == [shown |-> FALSE, left |-> Unset, right |-> Unset]

\* the locals of runChecks before it has run
NoLocals == [hostname |-> "", pathname |-> <<>>, isFunnel |-> FALSE]

\* lines 46-48
localsOf(loc) ==
    [hostname |-> loc.hostname,
     pathname |-> getNormalizedPathname(loc.pathname),
     isFunnel |-> isFunnelPage(loc)]

Init ==
    /\ location \in Locations
    /\ metaTag \in MetaTags
    /\ pc = "load"
    /\ requests = <<>>
    /\ robotsResponse = NoResponse
    /\ headResponse = NoResponse
    /\ robotsResult = Unset
    /\ leftPanelResult = Unset
    /\ rightPanelResult = Unset
    /\ banner = NoBanner
    /\ normalized = <<>>
    /\ locals = NoLocals
    /\ body = <<>>
    /\ displayCalls = 0

(***************************************************************************)
(* runChecks (lines 45-72).  An action is one synchronous stretch of the   *)
(* function: from the load event or a request's callback to the next await.*)
(***************************************************************************)
\* lines 60/64 to 68: the meta check gives the left result, then the HEAD
\* request is made; a TypeError in checkMetaTag rejects runChecks instead
MetaThenHead ==
    IF checkMetaTagThrows(metaTag)
    THEN /\ pc' = "rejected"
         /\ UNCHANGED <<leftPanelResult, requests>>
    ELSE /\ leftPanelResult' = checkMetaTag(metaTag, location)
         /\ requests' = Append(requests, "HEAD")
         /\ pc' = "awaitHead"

\* mutation of AfterRobots: the robots.txt result is shown whatever its status
AfterRobots_showsRobots(result) ==
    /\ robotsResult' = result
    /\ leftPanelResult' = result
    /\ requests' = Append(requests, "HEAD")
    /\ pc' = "awaitHead"

\* lines 53-61 after the await, then line 68
AfterRobots(result) ==
    /\ robotsResult' = result
    /\ IF result.status = "ok"
       THEN /\ leftPanelResult' = result
            /\ requests' = Append(requests, "HEAD")
            /\ pc' = "awaitHead"
       ELSE MetaThenHead

\* mutation of RunChecks: on a funnel page the HEAD request is made together
\* with the robots.txt request
RunChecks_concurrentHead ==
    /\ pc = "load"
    /\ locals' = localsOf(location)
    /\ IF isFunnelPage(location)
       THEN /\ requests' = <<"GET", "HEAD">>
            /\ pc' = "awaitRobots"
            /\ UNCHANGED leftPanelResult
       ELSE MetaThenHead
    /\ UNCHANGED <<location, metaTag, robotsResponse, headResponse, robotsResult,
                   rightPanelResult, normalized, dom>>

\* the load listener (line 254) starts runChecks
RunChecks ==
    /\ pc = "load"
    /\ locals' = localsOf(location)
    /\ IF isFunnelPage(location)
       THEN /\ requests' = Append(requests, "GET")
            /\ pc' = "awaitRobots"
            /\ UNCHANGED leftPanelResult
       ELSE MetaThenHead
    /\ UNCHANGED <<location, metaTag, robotsResponse, headResponse, robotsResult,
                   rightPanelResult, normalized, dom>>

RobotsOnload ==
    /\ pc = "awaitRobots"
    /\ \E responseText \in ServedRobotsTexts :
          /\ robotsResponse' = [kind |-> "onload", text |-> responseText]
          /\ AfterRobots(robotsOnload(responseText, locals.pathname))
    /\ UNCHANGED <<location, metaTag, headResponse, rightPanelResult, normalized, locals, dom>>

RobotsOnerror ==
    /\ pc = "awaitRobots"
    /\ robotsResponse' = [kind |-> "onerror", text |-> <<>>]
    /\ AfterRobots(robotsOnerror)
    /\ UNCHANGED <<location, metaTag, headResponse, rightPanelResult, normalized, locals, dom>>

\* mutation of removeExisting: the banner already in the document is kept
removeExisting_keeps(elements) == elements

\* lines 202-205: getElementById finds the first banner element, if any, and
\* it is removed
removeExisting(elements) == IF elements = <<>> THEN elements ELSE Tail(elements)

\* displaySplitBanner (lines 200-224): the new container is appended to
\* document.body; an element is told from the others by its serial number
displaySplitBanner(left, right) ==
    /\ body' = Append(removeExisting(body),
                      [serial |-> displayCalls + 1, left |-> left, right |-> right])
    /\ displayCalls' = displayCalls + 1
    /\ banner' = [shown |-> TRUE, left |-> left, right |-> right]

\* lines 68-71 after the await: the right result, then displaySplitBanner
AfterHead(result) ==
    /\ rightPanelResult' = result
    /\ displaySplitBanner(leftPanelResult, result)
    /\ pc' = "done"

HeadOnload ==
    /\ pc = "awaitHead"
    /\ \E responseHeaders \in ResponseHeaders :
          /\ headResponse' = [kind |-> "onload", text |-> responseHeaders]
          /\ AfterHead(headerOnload(responseHeaders, location))
    /\ UNCHANGED <<location, metaTag, requests, robotsResponse, robotsResult,
                   leftPanelResult, normalized, locals>>

HeadOnerror ==
    /\ pc = "awaitHead"
    /\ headResponse' = [kind |-> "onerror", text |-> <<>>]
    /\ AfterHead(headerOnerror)
    /\ UNCHANGED <<location, metaTag, requests, robotsResponse, robotsResult,
                   leftPanelResult, normalized, locals>>

\* closeButton.onclick (line 235): container.remove() on a banner of the document
CloseClick ==
    /\ \E i \in 1..Len(body) :
          body' = SubSeq(body, 1, i - 1) \o SubSeq(body, i + 1, Len(body))
    /\ UNCHANGED <<location, metaTag, pc, requests, robotsResponse, headResponse,
                   robotsResult, leftPanelResult, rightPanelResult, banner, normalized,
                   locals, displayCalls>>

Next == RunChecks \/ RobotsOnload \/ RobotsOnerror \/ HeadOnload \/ HeadOnerror \/ CloseClick

Spec == Init /\ [][Next]_vars

(***************************************************************************)
(* The path normalizers on their own: a string, then what                  *)
(* getNormalizedPathname and the rule normalization of lines 112-115 make  *)
(* of it when applied once and twice.                                      *)
(***************************************************************************)
DefaultLocation == [hostname |-> "example.com", pathname |-> <<"/">>]

DefaultMetaTag == [exists |-> FALSE, hasContent |-> FALSE, content |-> <<>>]

InitNormalize ==
    /\ normalized \in {<<[page |-> s, rule |-> s]>> : s \in Strings(PathChars, MaxPathLen)}
    /\ pc = "normalize"
    /\ location = DefaultLocation
    /\ metaTag = DefaultMetaTag
    /\ requests = <<>>
    /\ robotsResponse = NoResponse
    /\ headResponse = NoResponse
    /\ robotsResult = Unset
    /\ leftPanelResult = Unset
    /\ rightPanelResult = Unset
    /\ banner = NoBanner
    /\ locals = NoLocals
    /\ body = <<>>
    /\ displayCalls = 0

Normalize ==
    /\ pc = "normalize"
    /\ Len(normalized) < 3
    /\ normalized' = Append(normalized,
                            [page |-> getNormalizedPathname(normalized[Len(normalized)].page),
                             rule |-> normalizeDisallowedPath(normalized[Len(normalized)].rule)])
    /\ UNCHANGED <<location, metaTag, pc, requests, robotsResponse, headResponse,
                   robotsResult, leftPanelResult, rightPanelResult, locals, dom>>

SpecNormalize == InitNormalize /\ [][Normalize]_vars

(***************************************************************************)
(* The robots.txt matcher on its own: the onload callback of               *)
(* checkRobotsTxtForPath applied to every file and every normalized path.  *)
(***************************************************************************)
InitMatcher ==
    /\ location \in [hostname : {"get-honey.ai"}, pathname : Pathnames]
    /\ robotsResponse \in [kind : {"onload"}, text : RobotsTexts]
    /\ pc = "matcher"
    /\ metaTag = DefaultMetaTag
    /\ requests = <<"GET">>
    /\ headResponse = NoResponse
    /\ robotsResult = Unset
    /\ leftPanelResult = Unset
    /\ rightPanelResult = Unset
    /\ banner = NoBanner
    /\ normalized = <<>>
    /\ locals = localsOf(location)
    /\ body = <<>>
    /\ displayCalls = 0

Matcher ==
    /\ pc = "matcher"
    /\ robotsResult' = robotsOnload(robotsResponse.text, getNormalizedPathname(location.pathname))
    /\ pc' = "matched"
    /\ UNCHANGED <<location, metaTag, requests, robotsResponse, headResponse,
                   leftPanelResult, rightPanelResult, normalized, locals, dom>>

SpecMatcher == InitMatcher /\ [][Matcher]_vars

(***************************************************************************)
(* A run during which the page changes its own address                     *)
(* (history.pushState): the hostname stays, the path becomes another one.  *)
(* shouldUseStandardLogic reads window.location again each time it is      *)
(* called (lines 79-80), runChecks keeps what it read at line 46-48.       *)
(***************************************************************************)
\* the paths the page moves to: an ordinary one, two funnels
NavigationTargets == { <<"/">>, <<"/", "a">>, <<"/", "a", "B", "/">> }

Navigate ==
    /\ pc \in {"awaitRobots", "awaitHead"}
    /\ \E p \in NavigationTargets :
          /\ p # location.pathname
          /\ location' = [location EXCEPT !.pathname = p]
    /\ UNCHANGED <<metaTag, pc, requests, robotsResponse, headResponse, robotsResult,
                   leftPanelResult, rightPanelResult, normalized, locals, dom>>

NextNavigating == Next \/ Navigate

SpecNavigating == Init /\ [][NextNavigating]_vars

(***************************************************************************)
(* The banner on its own: displaySplitBanner called by one run after       *)
(* another on the same document, with clicks on the close button between.  *)
(***************************************************************************)
\* verdicts a run can hand over as left and as right
LeftVerdicts ==
    {robotsOnload(<<"D", "i", "s", "a", "l", "l", "o", "w", ":", " ", "/", "a">>, <<"/", "a">>)}
        \cup {checkMetaTag(m, loc) :
                 m \in {t \in MetaTags : ~checkMetaTagThrows(t)},
                 loc \in [hostname : Hostnames, pathname : {<<"/">>}]}

RightVerdicts ==
    {headerOnerror}
        \cup {headerOnload(h, loc) :
                 h \in ResponseHeaders, loc \in [hostname : Hostnames, pathname : {<<"/">>}]}

InitBanner ==
    /\ pc = "banner"
    /\ body = <<>>
    /\ displayCalls = 0
    /\ banner = NoBanner
    /\ location = DefaultLocation
    /\ metaTag = DefaultMetaTag
    /\ requests = <<>>
    /\ robotsResponse = NoResponse
    /\ headResponse = NoResponse
    /\ robotsResult = Unset
    /\ leftPanelResult = Unset
    /\ rightPanelResult = Unset
    /\ normalized = <<>>
    /\ locals = NoLocals

\* the last step of some run: line 71
DisplayCall ==
    /\ pc = "banner"
    /\ displayCalls < MaxDisplayCalls
    /\ \E left \in LeftVerdicts, right \in RightVerdicts : displaySplitBanner(left, right)
    /\ UNCHANGED <<location, metaTag, pc, requests, robotsResponse, headResponse,
                   robotsResult, leftPanelResult, rightPanelResult, normalized, locals>>

NextBanner == DisplayCall \/ CloseClick

SpecBanner == InitBanner /\ [][NextBanner]_vars

(***************************************************************************)
(* Vocabulary of the properties, stated on the inputs rather than through  *)
(* the script's own helpers.                                               *)
(***************************************************************************)
\* v contains token, letter case ignored
ContainsIgnoringCase(v, token) ==
    \E i \in 1..Len(v) :
        /\ i + Len(token) - 1 <= Len(v)
        /\ \A k \in 1..Len(token) : LowerChar(v[i + k - 1]) = token[k]

\* a restrictive value: one that holds noindex or nofollow
Restrictive(v) == ContainsIgnoringCase(v, <<"n", "o", "i", "n", "d", "e", "x">>) \/ ContainsIgnoringCase(v, <<"n", "o", "f", "o", "l", "l", "o", "w">>)

\* the page path as the script compares it
PagePath == getNormalizedPathname(location.pathname)

InFunnelRegistry(p) == \E i \in 1..Len(funnelPaths) : funnelPaths[i] = p

FunnelPage == location.hostname = "get-honey.ai" /\ InFunnelRegistry(PagePath)

\* standard polarity: the primary host outside the funnel registry
StandardPolarity == location.hostname = "get-honey.ai" /\ ~InFunnelRegistry(PagePath)

\* the lines of a text, as <<first, last>> positions: a line starts at the
\* start of the text or after a line feed and runs up to the next line feed
LineBounds(text) ==
    LET feeds == {i \in 1..Len(text) : text[i] = "\n"}
        starts == {1} \cup {i + 1 : i \in feeds}
        stops == feeds \cup {Len(text) + 1}
    IN  {<<first, (CHOOSE i \in stops : i >= first /\ \A j \in stops : j >= first => i <= j) - 1>> :
            first \in starts}

\* candidate rule path c is p itself or a path-segment prefix of p
SegmentPrefix(c, p) ==
    \/ p = c
    \/ /\ Len(p) > Len(c)
       /\ SubSeq(p, 1, Len(c)) = c
       /\ p[Len(c) + 1] = "/"

\* the rule path a line states: empty when the line is no disallow: line
RuleOfLine(line) ==
    LET l == toLowerCase(trim(line))
        r == trim(SubSeq(l, Len(<<"d", "i", "s", "a", "l", "l", "o", "w", ":">>) + 1, Len(l)))
    IN  IF ~startsWith(l, <<"d", "i", "s", "a", "l", "l", "o", "w", ":">>) THEN <<>>
        ELSE IF Len(r) > 1 /\ r[Len(r)] = "/" THEN SubSeq(r, 1, Len(r) - 1)
        ELSE r

\* some line of the text is a disallow: line whose rule path covers p
Covered(text, p) ==
    \E b \in LineBounds(text) :
        LET c == RuleOfLine(SubSeq(text, b[1], b[2]))
        IN  c # <<>> /\ SegmentPrefix(c, p)

\* the primary verdict has been assigned
PrimaryFinal == pc \in {"awaitHead", "done"}

IsMetaVerdict(v) == v.message.text \in {"Meta: content=", "Meta: tag not found"}

\* the meta check was reached through the funnel fallback
FallbackTaken == PrimaryFinal /\ FunnelPage /\ robotsResult.status # "ok"

(***************************************************************************)
(* Properties.                                                             *)
(***************************************************************************)
\* C1: on a funnel page whose robots.txt loads without a Disallow rule
\* covering the path and whose meta tag reads "noindex, nofollow", the
\* fallback to checkMetaTag is taken and the primary (left) verdict is ok.
C1_FunnelFallbackOk ==
    (/\ PrimaryFinal
     /\ FunnelPage
     /\ metaTag = MetaElement(<<"n", "o", "i", "n", "d", "e", "x", ",", " ", "n", "o", "f", "o", "l", "l", "o", "w">>)
     /\ robotsResponse.kind = "onload"
     /\ ~Covered(robotsResponse.text, PagePath))
    => /\ IsMetaVerdict(leftPanelResult)
       /\ leftPanelResult.status = "ok"
       /\ (pc = "done" => banner.left = leftPanelResult)

C1_Witness ==
    /\ pc = "done"
    /\ FunnelPage
    /\ robotsResponse.kind = "onload"
    /\ ~Covered(robotsResponse.text, PagePath)
    /\ metaTag = MetaElement(<<"n", "o", "i", "n", "d", "e", "x", ",", " ", "n", "o", "f", "o", "l", "l", "o", "w">>)
    /\ banner.left.status = "ok"

\* C2 as stated: when the funnel fallback is taken the meta tag is judged
\* under standard polarity, restrictive content bad and any other content ok.
C2_FallbackStandard ==
    (FallbackTaken /\ metaTag.exists /\ metaTag.hasContent)
    => leftPanelResult.status = (IF Restrictive(metaTag.content) THEN "bad" ELSE "ok")

\* C2 amended: when the funnel fallback is taken the meta tag is judged
\* under the funnel page's inverted polarity, restrictive content ok and any
\* other content bad.
C2_FallbackInverted ==
    (FallbackTaken /\ metaTag.exists /\ metaTag.hasContent)
    => /\ IsMetaVerdict(leftPanelResult)
       /\ leftPanelResult.status = (IF Restrictive(metaTag.content) THEN "ok" ELSE "bad")

C2_Witness ==
    /\ FallbackTaken
    /\ robotsResponse.kind = "onload"
    /\ metaTag = MetaElement(<<"i", "n", "d", "e", "x", ",", " ", "f", "o", "l", "l", "o", "w">>)
    /\ leftPanelResult.status = "bad"

\* C3: on a funnel page whose robots.txt request ends in a transport error
\* the primary verdict shown is not-found, whatever the meta tag is.
C3_FetchErrorNotFound ==
    (pc = "done" /\ FunnelPage /\ robotsResponse.kind = "onerror")
    => banner.left.status = "not-found"

\* the response headers hold no x-robots-tag: text: the script finds no header
HeaderNotFound(responseHeaders) == ~ContainsIgnoringCase(responseHeaders, <<"x", "-", "r", "o", "b", "o", "t", "s", "-", "t", "a", "g", ":">>)

HeadLoadedWithoutHeader ==
    pc = "done" /\ headResponse.kind = "onload" /\ HeaderNotFound(headResponse.text)

C6_HeadErrorIsolated ==
    /\ [](headResponse.kind = "onerror"
            => /\ pc = "done"
               /\ rightPanelResult.status = "not-found"
               /\ banner.right.status = "not-found")
    /\ [][pc = "awaitHead"
            => /\ leftPanelResult' = leftPanelResult
               /\ banner'.shown
               /\ banner'.left = leftPanelResult]_vars

C6_Witness ==
    /\ pc = "done"
    /\ headResponse.kind = "onerror"
    /\ FunnelPage
    /\ banner.left.status = "bad"
    /\ banner.right.status = "not-found"

\* the verdict table: restrictive is bad under standard polarity, ok under
\* inverted polarity, and the reverse for a value that is not restrictive
Table(standard, v) ==
    IF standard
    THEN (IF Restrictive(v) THEN "bad" ELSE "ok")
    ELSE (IF Restrictive(v) THEN "ok" ELSE "bad")

\* C7: polarity is standard exactly on the primary host outside funnelPaths;
\* a present meta content and a present header value are both judged by the
\* same table: under standard polarity bad if the value contains noindex or
\* nofollow in any letter case and ok otherwise, under inverted polarity the
\* reverse.
C7_PolarityTable ==
    /\ (PrimaryFinal /\ leftPanelResult.message.text = "Meta: content=")
          => /\ leftPanelResult.message.value = metaTag.content
             /\ leftPanelResult.status = Table(StandardPolarity, metaTag.content)
    /\ (pc = "done" /\ rightPanelResult.message.text = "Header: x-robots-tag: ")
          => rightPanelResult.status = Table(StandardPolarity, rightPanelResult.message.value)

C7_Witness ==
    /\ pc = "done"
    /\ StandardPolarity
    /\ metaTag = MetaElement(<<"N", "O", "I", "N", "D", "E", "X">>)
    /\ leftPanelResult.status = "bad"
    /\ rightPanelResult.message.value = <<"N", "O", "F", "O", "L", "L", "O", "W">>
    /\ rightPanelResult.status = "bad"

\* C8 as stated: both path normalizations are idempotent on every input,
\* paths ending in more than one / included, and / is a fixed point.
C8_Idempotent ==
    /\ Len(normalized) = 3 => normalized[3] = normalized[2]
    /\ (Len(normalized) >= 2 /\ normalized[1].page = <<"/">>)
          => normalized[2] = [page |-> <<"/">>, rule |-> <<"/">>]

\* C8 amended: both path normalizations are idempotent on every input that
\* does not end in more than one /, and / is a fixed point.
C8_IdempotentSingleSlash ==
    /\ (Len(normalized) = 3 /\ ~endsWith(normalized[1].page, <<"/", "/">>))
          => normalized[3] = normalized[2]
    /\ (Len(normalized) >= 2 /\ normalized[1].page = <<"/">>)
          => normalized[2] = [page |-> <<"/">>, rule |-> <<"/">>]

C8_Witness ==
    /\ Len(normalized) = 3
    /\ normalized[1].page = <<"/", "a", "/">>
    /\ normalized[2].page = <<"/", "a">>
    /\ normalized[3] = normalized[2]

\* C9: the matcher reports the path as disallowed exactly when some line,
\* trimmed and lower-cased, starts with disallow: and its trimmed,
\* slash-normalized, non-empty remainder is the path or a path-segment prefix
\* of it; rule /a does not cover /aB, and a bare Disallow: covers nothing.
C9_MatcherRule ==
    pc = "matched"
    => /\ robotsResult.status \in {"ok", "bad"}
       /\ robotsResult.status = "ok" <=> Covered(robotsResponse.text, PagePath)
       /\ (robotsResponse.text = <<"D", "i", "s", "a", "l", "l", "o", "w", ":", " ", "/", "a">> /\ PagePath = <<"/", "a", "B">>)
             => robotsResult.status = "bad"
       /\ robotsResponse.text = <<"D", "i", "s", "a", "l", "l", "o", "w", ":">> => robotsResult.status = "bad"

C9_Witness ==
    /\ pc = "matched"
    /\ robotsResponse.text = <<"D", "i", "s", "a", "l", "l", "o", "w", ":", "\n", "D", "i", "s", "a", "l", "l", "o", "w", ":", " ", "/", "a">>
    /\ PagePath = <<"/", "a", "/", "B">>
    /\ robotsResult.status = "ok"

HeadRequests == Cardinality({i \in 1..Len(requests) : requests[i] = "HEAD"})

\* C10: every run of runChecks issues the HEAD request exactly once,
\* whatever the page and whatever the primary check meets, a meta tag
\* without a content attribute included.
C10_HeadOnce ==
    /\ HeadRequests <= 1
    /\ pc \in {"awaitHead", "done", "rejected"} => HeadRequests = 1


StatusValues == {"ok", "bad", "not-found"}

\* the run has started and waits for no request
RunEnded == pc \in {"done", "rejected"}

\* C11: once every request it issued has completed, a run has handed its two
\* verdicts, primary and header, to displaySplitBanner, and has done so
\* exactly once, whatever the page, the meta tag (one without a content
\* attribute included) and the outcomes of the requests.
C11_DisplayedOnce ==
    /\ displayCalls <= 1
    /\ RunEnded
          => /\ displayCalls = 1
             /\ banner.shown
             /\ banner.left.status \in StatusValues
             /\ banner.right.status \in StatusValues

\* checkMetaTag has been called in this run
MetaCheckReached == pc \in {"awaitHead", "done", "rejected"} /\ robotsResult.status # "ok"

\* C12: whenever the meta tag is present checkMetaTag returns ok or bad and
\* does not fail, for any content, the empty string (ok under standard
\* polarity, bad under inverted) and a missing content attribute included.
C12_PresentMetaNeverFails ==
    (MetaCheckReached /\ metaTag.exists)
    => /\ pc # "rejected"
       /\ leftPanelResult.status \in {"ok", "bad"}
       /\ (metaTag.hasContent /\ metaTag.content = <<>>)
             => leftPanelResult.status = (IF StandardPolarity THEN "ok" ELSE "bad")

\* the primary verdict is the robots.txt match of a funnel page
PrimaryFromRobotsMatch ==
    /\ FunnelPage
    /\ robotsResponse.kind = "onload"
    /\ Covered(robotsResponse.text, PagePath)
    /\ banner.left.message.text = "robots.txt: Disallowed"

HeaderObserved == headResponse.kind = "onload" /\ ~HeaderNotFound(headResponse.text)

StartedStandard == locals.hostname = "get-honey.ai" /\ ~InFunnelRegistry(locals.pathname)

\* C14: the header verdict is computed under the polarity derived when
\* runChecks started, also when the page's path changes before the HEAD
\* response arrives.
C14_PolarityFixed ==
    (pc = "done" /\ headResponse.kind = "onload")
    => /\ locals.isFunnel = (locals.hostname = "get-honey.ai" /\ ~StartedStandard)
       /\ rightPanelResult.status =
            (IF rightPanelResult.message.text = "Header: not found"
             THEN (IF StartedStandard THEN "ok" ELSE "bad")
             ELSE Table(StartedStandard, rightPanelResult.message.value))

\* C15: in a run on a funnel page the robots.txt request completes before
\* the primary verdict is assigned, the primary verdict is assigned before
\* the HEAD request is issued, the HEAD request completes before
\* displaySplitBanner is called, the verdict shown is the one assigned, and
\* once assigned the primary verdict does not change.
C15_FunnelOrder ==
    /\ [](locals.isFunnel
            => /\ leftPanelResult # Unset => robotsResponse.kind # "none"
               /\ HeadRequests > 0 => leftPanelResult # Unset
               /\ headResponse.kind # "none" => HeadRequests = 1
               /\ displayCalls > 0 => (headResponse.kind # "none" /\ pc = "done")
               /\ banner.shown => banner.left = leftPanelResult)
    /\ [][leftPanelResult # Unset => leftPanelResult' = leftPanelResult]_vars

C15_Witness ==
    /\ pc = "done"
    /\ locals.isFunnel
    /\ ~FunnelPage
    /\ robotsResponse.kind = "onload"
    /\ headResponse.kind = "onload"
    /\ banner.shown
    /\ banner.left = leftPanelResult

\* what checkMetaTag answers for the page, stated on the inputs
MetaAnswer(v) ==
    /\ IsMetaVerdict(v)
    /\ v.status = (IF metaTag.exists THEN Table(StandardPolarity, metaTag.content) ELSE "not-found")

C17_OwnPathMatches ==
    (/\ pc = "matched"
     /\ \E b \in LineBounds(robotsResponse.text) :
           SubSeq(robotsResponse.text, b[1], b[2]) = <<"D", "i", "s", "a", "l", "l", "o", "w", ":", " ">> \o PagePath)
    => robotsResult.status = "ok"

\* C18: the document holds at most one banner; the banner it holds is the one
\* of the latest displaySplitBanner call; each call leaves its own banner in
\* the document, and a click on a close button removes the banner.
C18_SingleBanner ==
    /\ [](/\ Len(body) <= 1
          /\ body # <<>> => /\ body[1].serial = displayCalls
                            /\ body[1].left = banner.left
                            /\ body[1].right = banner.right)
    /\ [][displayCalls' # displayCalls
            => (Len(body') = 1 /\ body'[1].serial = displayCalls')]_vars
    /\ [][(displayCalls' = displayCalls /\ body' # body) => body' = <<>>]_vars

C18_Witness ==
    /\ pc = "banner"
    /\ displayCalls = 2
    /\ Len(body) = 1
    /\ body[1].serial = 2

\* a header line as name and value: the text before and after its first colon
ColonAt(line) == CHOOSE i \in 1..Len(line) : line[i] = ":" /\ \A j \in 1..(i - 1) : line[j] # ":"

HasColon(line) == \E i \in 1..Len(line) : line[i] = ":"

HeaderName(line) == toLowerCase(trim(SubSeq(line, 1, ColonAt(line) - 1)))

HeaderValue(line) == trim(SubSeq(line, ColonAt(line) + 1, Len(line)))

\* the values of the response header lines named x-robots-tag
RobotsTagValues(responseHeaders) ==
    {HeaderValue(SubSeq(responseHeaders, b[1], b[2])) :
        b \in {c \in LineBounds(responseHeaders) :
                 /\ HasColon(SubSeq(responseHeaders, c[1], c[2]))
                 /\ HeaderName(SubSeq(responseHeaders, c[1], c[2])) = <<"x", "-", "r", "o", "b", "o", "t", "s", "-", "t", "a", "g">>}}

\* C19: the header verdict depends on the X-Robots-Tag header line alone:
\* without a header of that name it is "Header: not found", with one the
\* value judged is that header's own value.
C19_OwnHeaderLine ==
    (pc = "done" /\ headResponse.kind = "onload")
    => IF RobotsTagValues(headResponse.text) = {}
       THEN rightPanelResult.message.text = "Header: not found"
       ELSE /\ rightPanelResult.message.text = "Header: x-robots-tag: "
            /\ rightPanelResult.message.value \in RobotsTagValues(headResponse.text)
            /\ rightPanelResult.status = Table(StandardPolarity, rightPanelResult.message.value)
====
